---- MODULE Spec2Model ----
(***************************************************************************)
(* Model of the URL shortener's code store (internal/persistence) and its  *)
(* facade (internal/core), with concurrent callers, the HTTP handlers and  *)
(* routes in front of them, and process restarts on the same data source.  *)
(*                                                                         *)
(* Strings are sequences of one-character strings; "" is << >>.            *)
(* Errors are wrap chains: the sequence of messages from the outermost     *)
(* fmt.Errorf("...: %w") down to the root error; nil is << >>.             *)
(***************************************************************************)
EXTENDS Naturals, Sequences, FiniteSets

\* ---------------------------------------------------------------- bounds
\* number of concurrent callers (HTTP requests in flight)
NumCallers == 2
\* the random draw sequences explored are numbered 0..MaxStream
MaxStream == 1
\* requests received and restarts in one behaviour
MaxCalls == 3
\* values time.Now().UnixNano() is seen to return are 1..MaxClock
MaxClock == 1

\* ------------------------------------------------------ program constants
base62Chars ==
  << "0","1","2","3","4","5","6","7","8","9",
     "a","b","c","d","e","f","g","h","i","j","k","l","m",
     "n","o","p","q","r","s","t","u","v","w","x","y","z",
     "A","B","C","D","E","F","G","H","I","J","K","L","M",
     "N","O","P","Q","R","S","T","U","V","W","X","Y","Z" >>

shortCodeLength == 6

\* ----------------------------------------------------------------- errors
Nil == << >>

EmptyString == << >>

ErrNotFound == << "types: record not found" >>

\* a failure of the underlying storage call (any error of database/sql that
\* is neither sql.ErrNoRows nor a constraint violation)
ErrStorageIO == << "disk I/O error" >>

ErrUniqueOriginal == << "UNIQUE constraint failed: urls.original" >>

ErrUniqueShort == << "UNIQUE constraint failed: urls.short" >>

\* fmt.Errorf(msg + ": %w", err)
Wrap(msg, err) == << msg >> \o err

\* errors.Is(err, target): target is err or something err wraps
ErrorsIs(err, target) ==
  \E i \in 1..Len(err) : SubSeq(err, i, Len(err)) = target

\* ------------------------------------------------------------ input sets
Callers == 1..NumCallers

\* original URLs submitted; opaque strings
Originals == { << "a" >>, << "b" >> }

\* the indices of s, t, a, t, i, c in base62Chars
StaticDraws == << 28, 29, 10, 29, 18, 12 >>

\* rand.Intn(len(base62Chars)) may return any index; draw sequence s is one
\* run of shortCodeLength draws: all zero, then the draws spelling "static",
\* "STATIC" and further shifts of them
IntnDraws(s) ==
  [i \in 1..shortCodeLength |->
     IF s = 0 THEN 0 ELSE (StaticDraws[i] + 26 * (s - 1)) % Len(base62Chars)]

\* values of time.Now().UnixNano() read by generateShortCode
Times == 1..MaxClock

DrawSeqs == { IntnDraws(s) : s \in 0..MaxStream }

\* generateShortCode with a buffer one byte short
generateShortCodeShort(draws) ==
  [i \in 1..(shortCodeLength - 1) |-> base62Chars[draws[i] + 1]]

\* b[i] = base62Chars[rand.Intn(len(base62Chars))] for i in range b
generateShortCode(draws) ==
  [i \in 1..shortCodeLength |-> base62Chars[draws[i] + 1]]

GeneratedCodes == { generateShortCode(d) : d \in DrawSeqs }

\* codes asked of Resolve: not validated, any length or alphabet
ResolveInputs ==
  GeneratedCodes \cup { << "z","z","z","z","z","z" >>, << "!" >> }

\* ----------------------------------------------------------------- state
VARIABLES
  urls,       \* rows of table urls: [id, original, short]
  seq,        \* AUTOINCREMENT counter of table urls
  pc,         \* per caller: position in the call
  arg,        \* per caller: originalURL of Save / shortCode of Get
  shortCode,  \* per caller: local shortCode of Save
  storeRet,   \* per caller: what Save / Get returned: [val, err]
  coreRet,    \* per caller: what ShortenURL / GetURL returned: [val, err]
  inserts,    \* per caller: INSERT statements executed in this call
  gens,       \* per caller: generateShortCode calls in this call
  prior,      \* per caller: codes already returned for arg when the call began
  issued,     \* per original: codes returned by successful Shorten calls
  calls,      \* requests received and restarts so far
  resp,       \* per caller: the HTTP response written: [status, location]
  seedRead,   \* per caller: time value passed to rand.Seed, until Save returns; else 0
  restarts    \* process restarts so far

vars == << urls, seq, pc, arg, shortCode, storeRet, coreRet,
           inserts, gens, prior, issued, calls, resp, seedRead, restarts >>

NoRet == [val |-> EmptyString, err |-> Nil]

NoResp == [status |-> 0, location |-> EmptyString]

\* ------------------------------------------------------------ the table
\* the table without UNIQUE on original
NoUniqueOriginal(rows, original) == TRUE

\* CREATE TABLE IF NOT EXISTS urls (id INTEGER PRIMARY KEY AUTOINCREMENT,
\*   original TEXT NOT NULL UNIQUE, short TEXT NOT NULL UNIQUE)
\* UNIQUE on original admits the new row
UniqueOriginalHolds(rows, original) ==
  \A r \in rows : r.original # original

\* the table without UNIQUE on short
NoUniqueShort(rows, short) == TRUE

\* UNIQUE on short admits the new row
UniqueShortHolds(rows, short) ==
  \A r \in rows : r.short # short

\* the error of INSERT INTO urls (original, short) VALUES (?, ?), Nil if none
InsertError(rows, original, short) ==
  IF ~UniqueOriginalHolds(rows, original) THEN ErrUniqueOriginal
  ELSE IF ~UniqueShortHolds(rows, short) THEN ErrUniqueShort
  ELSE Nil

\* the lookup of Save comparing the wrong column
SelectShortByShort(rows, original) ==
  { r.short : r \in { x \in rows : x.short = original } }

\* SELECT short FROM urls WHERE original = ?
SelectShort(rows, original) ==
  { r.short : r \in { x \in rows : x.original = original } }

\* the lookup of Get returning the wrong column
SelectShortAsOriginal(rows, short) ==
  { r.short : r \in { x \in rows : x.short = short } }

\* SELECT original FROM urls WHERE short = ?
SelectOriginal(rows, short) ==
  { r.original : r \in { x \in rows : x.short = short } }

\* --------------------------------------------------------------- facade
\* Core.ShortenURL around the result of persistence.Save
ShortenURL(res) ==
  IF res.err # Nil
    THEN [val |-> EmptyString, err |-> Wrap("core: failed to shorten url", res.err)]
    ELSE [val |-> res.val, err |-> Nil]


\* Core.GetURL formatting the error with %v: the message is kept, the chain
\* is not
GetURLFlattened(res) ==
  IF res.err # Nil
    THEN [val |-> EmptyString, err |-> << "core: failed to get url: (text of the error)" >>]
    ELSE [val |-> res.val, err |-> Nil]

\* Core.GetURL around the result of persistence.Get
GetURL(res) ==
  IF res.err # Nil
    THEN [val |-> EmptyString, err |-> Wrap("core: failed to get url", res.err)]
    ELSE [val |-> res.val, err |-> Nil]

\* ----------------------------------------------------------------- HTTP
\* the request path of a code: "/" + code
Path(c) == << "/" >> \o c

StaticName == << "s","t","a","t","i","c" >>

StaticUpper == << "S","T","A","T","I","C" >>

ShortenName == << "s","h","o","r","t","e","n" >>

\* paths of GET requests that end in the router
GetPaths == { Path(c) : c \in ResolveInputs \cup { StaticUpper, ShortenName } }

\* unicode.ToLower on the characters of base62Chars
ToLower(ch) ==
  IF \E i \in 37..62 : base62Chars[i] = ch
    THEN base62Chars[(CHOOSE i \in 37..62 : base62Chars[i] = ch) - 26]
    ELSE ch

\* strings.EqualFold
EqualFold(a, b) ==
  /\ Len(a) = Len(b)
  /\ \A i \in 1..Len(a) : ToLower(a[i]) = ToLower(b[i])

\* what httprouter (RedirectTrailingSlash, RedirectFixedPath and
\* HandleMethodNotAllowed are on in httprouter.New()) does with GET path
\* under the routes POST /shorten and GET /static/*filepath: the trailing
\* slash redirect for /static, the fixed-path redirect for a path that is
\* /static up to case, 405 for a path registered for POST only, and
\* router.NotFound, that is handleRedirect, for every other path
Route(path) ==
  IF path = Path(StaticName) THEN "RedirectTrailingSlash"
  ELSE IF path # Path(EmptyString) /\ EqualFold(path, Path(StaticName)) THEN "RedirectFixedPath"
  ELSE IF path = Path(ShortenName) THEN "MethodNotAllowed"
  ELSE "NotFound"

\* the response the router writes itself
RouterResponse(path) ==
  IF Route(path) \in { "RedirectTrailingSlash", "RedirectFixedPath" }
    THEN [status |-> 301, location |-> Path(StaticName) \o << "/" >>]
    ELSE [status |-> 405, location |-> EmptyString]

\* handleShorten after Core.ShortenURL returned cr; location carries the
\* path of short_url
handleShorten(cr) ==
  IF cr.err # Nil
    THEN [status |-> 500, location |-> EmptyString]
    ELSE [status |-> 200, location |-> Path(cr.val)]

\* handleRedirect after Core.GetURL returned cr
handleRedirect(cr) ==
  IF cr.err # Nil
    THEN [status |-> 404, location |-> EmptyString]
    ELSE [status |-> 301, location |-> cr.val]

\* ----------------------------------------------------------------- Init
\* NewSQLitePersistence on a fresh data source; no request in flight
Init ==
  /\ urls = {}
  /\ seq = 0
  /\ pc = [p \in Callers |-> "idle"]
  /\ arg = [p \in Callers |-> EmptyString]
  /\ shortCode = [p \in Callers |-> EmptyString]
  /\ storeRet = [p \in Callers |-> NoRet]
  /\ coreRet = [p \in Callers |-> NoRet]
  /\ inserts = [p \in Callers |-> 0]
  /\ gens = [p \in Callers |-> 0]
  /\ prior = [p \in Callers |-> {}]
  /\ issued = [u \in Originals |-> {}]
  /\ calls = 0
  /\ resp = [p \in Callers |-> NoResp]
  /\ seedRead = [p \in Callers |-> 0]
  /\ restarts = 0

\* -------------------------------------------------------------- actions
\* POST /shorten with a well-formed body: handleShorten enters
\* Core.ShortenURL(u) -> persistence.Save(u)
CallShorten(p) ==
  /\ pc[p] = "idle"
  /\ calls < MaxCalls
  /\ \E u \in Originals :
       /\ arg' = [arg EXCEPT ![p] = u]
       /\ prior' = [prior EXCEPT ![p] = issued[u]]
  /\ pc' = [pc EXCEPT ![p] = "save_select"]
  /\ shortCode' = [shortCode EXCEPT ![p] = EmptyString]
  /\ storeRet' = [storeRet EXCEPT ![p] = NoRet]
  /\ coreRet' = [coreRet EXCEPT ![p] = NoRet]
  /\ inserts' = [inserts EXCEPT ![p] = 0]
  /\ gens' = [gens EXCEPT ![p] = 0]
  /\ calls' = calls + 1
  /\ resp' = [resp EXCEPT ![p] = NoResp]
  /\ seedRead' = [seedRead EXCEPT ![p] = 0]
  /\ UNCHANGED << urls, seq, issued, restarts >>

\* Save returns res; ShortenURL wraps it and returns to the caller
ReturnFromSave(p, res) ==
  /\ storeRet' = [storeRet EXCEPT ![p] = res]
  /\ coreRet' = [coreRet EXCEPT ![p] = ShortenURL(res)]
  /\ resp' = [resp EXCEPT ![p] = handleShorten(ShortenURL(res))]
  /\ seedRead' = [seedRead EXCEPT ![p] = 0]
  /\ pc' = [pc EXCEPT ![p] = "done_shorten"]
  /\ issued' = IF res.err = Nil
                 THEN [issued EXCEPT ![arg[p]] = @ \cup { res.val }]
                 ELSE issued

\* Save: the SELECT by original and the three ways on from it
SaveSelect(p) ==
  /\ pc[p] = "save_select"
  /\ \/ \* err == nil: a row was scanned
        /\ \E c \in SelectShort(urls, arg[p]) :
             /\ shortCode' = [shortCode EXCEPT ![p] = c]
             /\ ReturnFromSave(p, [val |-> c, err |-> Nil])
     \/ \* err is neither nil nor sql.ErrNoRows
        /\ ReturnFromSave(p, [val |-> EmptyString,
                              err |-> Wrap("persistence: failed to query url", ErrStorageIO)])
        /\ UNCHANGED shortCode
     \/ \* sql.ErrNoRows
        /\ SelectShort(urls, arg[p]) = {}
        /\ pc' = [pc EXCEPT ![p] = "save_generate"]
        /\ UNCHANGED << shortCode, storeRet, coreRet, issued, resp, seedRead >>
  /\ UNCHANGED << urls, seq, arg, inserts, gens, prior, calls, restarts >>

\* Save: shortCode = p.generateShortCode().  rand.Seed(time.Now().UnixNano())
\* reads the clock, but the draws that follow are not fixed by the value
\* read: the module's go line is 1.25rc2 and since Go 1.24 the top-level
\* rand.Seed has no effect unless GODEBUG=randseednop=0 is set; with that
\* setting the generator is still shared, so another caller's Seed or Intn
\* between two draws of this loop changes the draws that follow.
SaveGenerate(p) ==
  /\ pc[p] = "save_generate"
  /\ \E t \in Times :
       seedRead' = [seedRead EXCEPT ![p] = t]
  /\ \E d \in DrawSeqs :
       shortCode' = [shortCode EXCEPT ![p] = generateShortCode(d)]
  /\ gens' = [gens EXCEPT ![p] = @ + 1]
  /\ pc' = [pc EXCEPT ![p] = "save_insert"]
  /\ UNCHANGED << urls, seq, arg, storeRet, coreRet, inserts, prior, issued, calls,
                  resp, restarts >>

\* the INSERT written as INSERT OR REPLACE: conflicting rows give way
SaveInsertOrReplace(p) ==
  /\ pc[p] = "save_insert"
  /\ inserts' = [inserts EXCEPT ![p] = @ + 1]
  /\ \/ /\ ReturnFromSave(p, [val |-> EmptyString,
                              err |-> Wrap("persistence: failed to insert url", ErrStorageIO)])
        /\ UNCHANGED << urls, seq >>
     \/ /\ urls' = { r \in urls : r.original # arg[p] /\ r.short # shortCode[p] }
                    \cup { [id |-> seq + 1, original |-> arg[p], short |-> shortCode[p]] }
        /\ seq' = seq + 1
        /\ ReturnFromSave(p, [val |-> shortCode[p], err |-> Nil])
  /\ UNCHANGED << arg, shortCode, gens, prior, calls, restarts >>


\* the INSERT in a loop that generates again whenever a constraint rejects
\* the row, without a bound on the attempts (the counters do not run on)
SaveInsertRetry(p) ==
  /\ pc[p] = "save_insert"
  /\ inserts' = [inserts EXCEPT ![p] = IF @ < 2 THEN @ + 1 ELSE @]
  /\ \/ /\ ReturnFromSave(p, [val |-> EmptyString,
                              err |-> Wrap("persistence: failed to insert url", ErrStorageIO)])
        /\ UNCHANGED << urls, seq, gens >>
     \/ /\ InsertError(urls, arg[p], shortCode[p]) # Nil
        /\ pc' = [pc EXCEPT ![p] = "save_generate"]
        /\ gens' = [gens EXCEPT ![p] = 0]
        /\ UNCHANGED << urls, seq, storeRet, coreRet, issued, resp, seedRead >>
     \/ /\ InsertError(urls, arg[p], shortCode[p]) = Nil
        /\ urls' = urls \cup { [id |-> seq + 1, original |-> arg[p], short |-> shortCode[p]] }
        /\ seq' = seq + 1
        /\ ReturnFromSave(p, [val |-> shortCode[p], err |-> Nil])
        /\ UNCHANGED gens
  /\ UNCHANGED << arg, shortCode, prior, calls, restarts >>


\* the INSERT whose storage failure is reported after the row was written
SaveInsertFailsLate(p) ==
  /\ pc[p] = "save_insert"
  /\ inserts' = [inserts EXCEPT ![p] = @ + 1]
  /\ \/ /\ InsertError(urls, arg[p], shortCode[p]) = Nil
        /\ urls' = urls \cup { [id |-> seq + 1, original |-> arg[p], short |-> shortCode[p]] }
        /\ seq' = seq + 1
        /\ ReturnFromSave(p, [val |-> EmptyString,
                              err |-> Wrap("persistence: failed to insert url", ErrStorageIO)])
     \/ /\ InsertError(urls, arg[p], shortCode[p]) # Nil
        /\ ReturnFromSave(p, [val |-> EmptyString,
                              err |-> Wrap("persistence: failed to insert url",
                                           InsertError(urls, arg[p], shortCode[p]))])
        /\ UNCHANGED << urls, seq >>
     \/ /\ InsertError(urls, arg[p], shortCode[p]) = Nil
        /\ urls' = urls \cup { [id |-> seq + 1, original |-> arg[p], short |-> shortCode[p]] }
        /\ seq' = seq + 1
        /\ ReturnFromSave(p, [val |-> shortCode[p], err |-> Nil])
  /\ UNCHANGED << arg, shortCode, gens, prior, calls, restarts >>

\* Save: the INSERT and the return after it
SaveInsert(p) ==
  /\ pc[p] = "save_insert"
  /\ inserts' = [inserts EXCEPT ![p] = @ + 1]
  /\ \/ \* the statement fails without reaching the table
        /\ ReturnFromSave(p, [val |-> EmptyString,
                              err |-> Wrap("persistence: failed to insert url", ErrStorageIO)])
        /\ UNCHANGED << urls, seq >>
     \/ \* a uniqueness constraint rejects the row
        /\ InsertError(urls, arg[p], shortCode[p]) # Nil
        /\ ReturnFromSave(p, [val |-> EmptyString,
                              err |-> Wrap("persistence: failed to insert url",
                                           InsertError(urls, arg[p], shortCode[p]))])
        /\ UNCHANGED << urls, seq >>
     \/ \* the row is stored
        /\ InsertError(urls, arg[p], shortCode[p]) = Nil
        /\ urls' = urls \cup { [id |-> seq + 1, original |-> arg[p], short |-> shortCode[p]] }
        /\ seq' = seq + 1
        /\ ReturnFromSave(p, [val |-> shortCode[p], err |-> Nil])
  /\ UNCHANGED << arg, shortCode, gens, prior, calls, restarts >>

\* GET /c finds no route, router.NotFound runs handleRedirect, which
\* enters Core.GetURL(c) -> persistence.Get(c) with c = r.URL.Path[1:]
CallResolve(p) ==
  /\ pc[p] = "idle"
  /\ calls < MaxCalls
  /\ \E c \in ResolveInputs :
       /\ Route(Path(c)) = "NotFound"
       /\ arg' = [arg EXCEPT ![p] = c]
       /\ prior' = [prior EXCEPT ![p] = { u \in Originals : c \in issued[u] }]
  /\ pc' = [pc EXCEPT ![p] = "get_select"]
  /\ shortCode' = [shortCode EXCEPT ![p] = EmptyString]
  /\ storeRet' = [storeRet EXCEPT ![p] = NoRet]
  /\ coreRet' = [coreRet EXCEPT ![p] = NoRet]
  /\ inserts' = [inserts EXCEPT ![p] = 0]
  /\ gens' = [gens EXCEPT ![p] = 0]
  /\ calls' = calls + 1
  /\ resp' = [resp EXCEPT ![p] = NoResp]
  /\ seedRead' = [seedRead EXCEPT ![p] = 0]
  /\ UNCHANGED << urls, seq, issued, restarts >>

\* Get returns res; GetURL wraps it and returns to the caller
ReturnFromGet(p, res) ==
  /\ storeRet' = [storeRet EXCEPT ![p] = res]
  /\ coreRet' = [coreRet EXCEPT ![p] = GetURL(res)]
  /\ resp' = [resp EXCEPT ![p] = handleRedirect(GetURL(res))]
  /\ pc' = [pc EXCEPT ![p] = "done_resolve"]

\* Get without the sql.ErrNoRows case: a miss is wrapped like any failure
GetMissWrapped(p) ==
  /\ pc[p] = "get_select"
  /\ \/ \E u \in SelectOriginal(urls, arg[p]) :
          ReturnFromGet(p, [val |-> u, err |-> Nil])
     \/ /\ SelectOriginal(urls, arg[p]) = {}
        /\ ReturnFromGet(p, [val |-> EmptyString,
                             err |-> Wrap("persistence: failed to get url",
                                          << "sql: no rows in result set" >>)])
     \/ ReturnFromGet(p, [val |-> EmptyString,
                          err |-> Wrap("persistence: failed to get url", ErrStorageIO)])
  /\ UNCHANGED << urls, seq, arg, shortCode, inserts, gens, prior, issued, calls,
                  seedRead, restarts >>

\* Get consuming the mapping it resolves
GetAndDelete(p) ==
  /\ pc[p] = "get_select"
  /\ \/ \E u \in SelectOriginal(urls, arg[p]) :
          ReturnFromGet(p, [val |-> u, err |-> Nil])
     \/ /\ SelectOriginal(urls, arg[p]) = {}
        /\ ReturnFromGet(p, [val |-> EmptyString, err |-> ErrNotFound])
     \/ ReturnFromGet(p, [val |-> EmptyString,
                          err |-> Wrap("persistence: failed to get url", ErrStorageIO)])
  /\ urls' = { r \in urls : r.short # arg[p] }
  /\ UNCHANGED << seq, arg, shortCode, inserts, gens, prior, issued, calls,
                  seedRead, restarts >>

\* Get: the SELECT by short and the return after it
Get(p) ==
  /\ pc[p] = "get_select"
  /\ \/ \E u \in SelectOriginal(urls, arg[p]) :
          ReturnFromGet(p, [val |-> u, err |-> Nil])
     \/ /\ SelectOriginal(urls, arg[p]) = {}
        /\ ReturnFromGet(p, [val |-> EmptyString, err |-> ErrNotFound])
     \/ ReturnFromGet(p, [val |-> EmptyString,
                          err |-> Wrap("persistence: failed to get url", ErrStorageIO)])
  /\ UNCHANGED << urls, seq, arg, shortCode, inserts, gens, prior, issued, calls,
                  seedRead, restarts >>

\* a GET whose path the router answers itself, or a POST /shorten whose
\* body does not decode (400): no call into Core
RouterAnswer(p) ==
  /\ pc[p] = "idle"
  /\ calls < MaxCalls
  /\ \/ \E path \in GetPaths :
          /\ Route(path) # "NotFound"
          /\ arg' = [arg EXCEPT ![p] = Tail(path)]
          /\ resp' = [resp EXCEPT ![p] = RouterResponse(path)]
     \/ /\ arg' = [arg EXCEPT ![p] = EmptyString]
        /\ resp' = [resp EXCEPT ![p] = [status |-> 400, location |-> EmptyString]]
  /\ pc' = [pc EXCEPT ![p] = "done_router"]
  /\ calls' = calls + 1
  /\ UNCHANGED << urls, seq, shortCode, storeRet, coreRet, inserts, gens, prior,
                  issued, seedRead, restarts >>

\* the request is answered; the caller is free for the next one
Finish(p) ==
  /\ pc[p] \in { "done_shorten", "done_resolve", "done_router" }
  /\ pc' = [pc EXCEPT ![p] = "idle"]
  /\ arg' = [arg EXCEPT ![p] = EmptyString]
  /\ shortCode' = [shortCode EXCEPT ![p] = EmptyString]
  /\ storeRet' = [storeRet EXCEPT ![p] = NoRet]
  /\ coreRet' = [coreRet EXCEPT ![p] = NoRet]
  /\ inserts' = [inserts EXCEPT ![p] = 0]
  /\ gens' = [gens EXCEPT ![p] = 0]
  /\ prior' = [prior EXCEPT ![p] = {}]
  /\ resp' = [resp EXCEPT ![p] = NoResp]
  /\ seedRead' = [seedRead EXCEPT ![p] = 0]
  /\ UNCHANGED << urls, seq, issued, calls, restarts >>


\* main opening a data source that does not hold the earlier table
RestartFresh ==
  /\ calls < MaxCalls
  /\ calls' = calls + 1
  /\ restarts' = restarts + 1
  /\ urls' = {}
  /\ seq' = 0
  /\ pc' = [p \in Callers |-> "idle"]
  /\ arg' = [p \in Callers |-> EmptyString]
  /\ shortCode' = [p \in Callers |-> EmptyString]
  /\ storeRet' = [p \in Callers |-> NoRet]
  /\ coreRet' = [p \in Callers |-> NoRet]
  /\ inserts' = [p \in Callers |-> 0]
  /\ gens' = [p \in Callers |-> 0]
  /\ prior' = [p \in Callers |-> {}]
  /\ resp' = [p \in Callers |-> NoResp]
  /\ seedRead' = [p \in Callers |-> 0]
  /\ UNCHANGED issued

\* the process ends and main runs again: NewSQLitePersistence("urls.db")
\* opens the same file, CREATE TABLE IF NOT EXISTS finds the table; the
\* requests that were in flight are gone
Restart ==
  /\ calls < MaxCalls
  /\ calls' = calls + 1
  /\ restarts' = restarts + 1
  /\ pc' = [p \in Callers |-> "idle"]
  /\ arg' = [p \in Callers |-> EmptyString]
  /\ shortCode' = [p \in Callers |-> EmptyString]
  /\ storeRet' = [p \in Callers |-> NoRet]
  /\ coreRet' = [p \in Callers |-> NoRet]
  /\ inserts' = [p \in Callers |-> 0]
  /\ gens' = [p \in Callers |-> 0]
  /\ prior' = [p \in Callers |-> {}]
  /\ resp' = [p \in Callers |-> NoResp]
  /\ seedRead' = [p \in Callers |-> 0]
  /\ UNCHANGED << urls, seq, issued >>

Next ==
  \/ Restart
  \/ \E p \in Callers :
    \/ CallShorten(p)
    \/ SaveSelect(p)
    \/ SaveGenerate(p)
    \/ SaveInsert(p)
    \/ CallResolve(p)
    \/ Get(p)
    \/ RouterAnswer(p)
    \/ Finish(p)

Spec == Init /\ [][Next]_vars


\* the next statement of a caller that is inside Save or Get
CallStep(p) == SaveSelect(p) \/ SaveGenerate(p) \/ SaveInsert(p) \/ Get(p)

\* every storage call returns and every request's goroutine keeps running
FairSpec ==
  /\ Spec
  /\ \A p \in Callers : WF_vars(CallStep(p))

\* ---------------------------------------------------------------- claims
\* the storage call of p's finished call itself failed
StorageFailed(p) == ErrorsIs(storeRet[p].err, ErrStorageIO)

RowsOf(u) == { r \in urls : r.original = u }

\* C1: a Shorten(u) that begins after a Shorten(u) has returned a code
\* returns that same code (unless its lookup fails in the storage layer),
\* generates no code, inserts no row, and leaves exactly one row for u.
C1_ResubmitReturnsSameCode ==
  \A p \in Callers :
    (pc[p] = "done_shorten" /\ prior[p] # {}) =>
      /\ gens[p] = 0
      /\ inserts[p] = 0
      /\ Cardinality(RowsOf(arg[p])) = 1
      /\ Cardinality(prior[p]) = 1
      /\ ~StorageFailed(p) =>
           /\ storeRet[p].err = Nil
           /\ coreRet[p].err = Nil
           /\ coreRet[p].val \in prior[p]
           /\ issued[arg[p]] = prior[p]

C1_Witness ==
  \E p \in Callers :
    /\ pc[p] = "done_shorten"
    /\ prior[p] # {}
    /\ coreRet[p].err = Nil
    /\ coreRet[p].val \in prior[p]
    /\ Cardinality(urls) = 2

\* C2: a Resolve(c) that begins after Shorten(u) returned c returns exactly
\* u (unless its lookup fails in the storage layer), whatever calls came
\* in between.
C2_RoundTrip ==
  \A p \in Callers :
    (pc[p] = "done_resolve" /\ prior[p] # {} /\ ~StorageFailed(p)) =>
      /\ coreRet[p].err = Nil
      /\ prior[p] = { coreRet[p].val }
      /\ storeRet[p] = coreRet[p]

C2_Witness ==
  \E p \in Callers :
    /\ pc[p] = "done_resolve"
    /\ coreRet[p].err = Nil
    /\ coreRet[p].val \in prior[p]
    /\ Cardinality(urls) = 2
    /\ calls = MaxCalls

\* C3: no two mappings share a short code, and no code is returned by
\* Shorten for two different originals.
C3_ShortUnique ==
  /\ \A r1, r2 \in urls : r1.short = r2.short => r1 = r2
  /\ \A u1, u2 \in Originals : u1 # u2 => issued[u1] \cap issued[u2] = {}

C3_Witness ==
  /\ Cardinality(urls) = 2
  /\ \A u \in Originals : issued[u] # {}
  /\ \E p \in Callers :
       /\ pc[p] = "done_shorten"
       /\ gens[p] = 1
       /\ coreRet[p].err = Nil

\* C4: at most one mapping exists for each original, also when several
\* Shorten calls for the same new original pass the lookup before any of
\* them inserts.
C4_OriginalUnique ==
  \A r1, r2 \in urls : r1.original = r2.original => r1 = r2

C4_Witness ==
  \E p, q \in Callers :
    /\ p # q
    /\ pc[p] = "done_shorten" /\ pc[q] = "done_shorten"
    /\ arg[p] = arg[q]
    /\ inserts[p] = 1 /\ inserts[q] = 1
    /\ ErrorsIs(coreRet[q].err, ErrUniqueOriginal)

\* C5: concurrent Shorten(u) calls never return different codes: every
\* successful return is the one code stored for u.
C5_OneCodePerOriginal ==
  /\ \A u \in Originals :
       /\ Cardinality(issued[u]) <= 1
       /\ issued[u] \subseteq { r.short : r \in RowsOf(u) }
  /\ \A p \in Callers :
       (pc[p] = "done_shorten" /\ coreRet[p].err = Nil) =>
         { r.short : r \in RowsOf(arg[p]) } = { coreRet[p].val }

C5_Witness ==
  \E p, q \in Callers :
    /\ p # q
    /\ pc[p] = "done_shorten" /\ pc[q] = "done_shorten"
    /\ arg[p] = arg[q]
    /\ gens[p] = 1 /\ gens[q] = 1
    /\ shortCode[p] # shortCode[q]
    /\ coreRet[p].err = Nil

C7_MappingsOnlyGrow == [][urls \subseteq urls']_vars

C7_Witness ==
  /\ urls # {}
  /\ \E p, q \in Callers :
       /\ pc[p] = "done_shorten" /\ coreRet[p].err # Nil /\ inserts[p] = 1
       /\ pc[q] = "done_resolve"

\* C8: every stored short code and every code returned by Shorten has
\* exactly 6 characters, each one of 0-9, a-z, A-Z, fresh or re-submitted.
C8_Digits == { "0","1","2","3","4","5","6","7","8","9" }

C8_Lower == { "a","b","c","d","e","f","g","h","i","j","k","l","m",
              "n","o","p","q","r","s","t","u","v","w","x","y","z" }

C8_Upper == { "A","B","C","D","E","F","G","H","I","J","K","L","M",
              "N","O","P","Q","R","S","T","U","V","W","X","Y","Z" }

C8_IsCode(c) ==
  /\ Len(c) = 6
  /\ \A i \in 1..Len(c) : c[i] \in C8_Digits \cup C8_Lower \cup C8_Upper

C8_CodeFormat ==
  /\ \A r \in urls : C8_IsCode(r.short)
  /\ \A u \in Originals : \A c \in issued[u] : C8_IsCode(c)
  /\ \A p \in Callers :
       (pc[p] = "done_shorten" /\ coreRet[p].err = Nil) => C8_IsCode(coreRet[p].val)

C8_Witness ==
  \E p, q \in Callers :
    /\ pc[p] = "done_shorten" /\ coreRet[p].err = Nil /\ gens[p] = 1
    /\ pc[q] = "done_shorten" /\ coreRet[q].err = Nil /\ gens[q] = 0

\* C9: a Resolve step, successful or failed, leaves the table as it was.
C9_ResolveReadsOnly ==
  [][\A p \in Callers :
       (pc[p] = "get_select" /\ pc'[p] = "done_resolve") =>
         (urls' = urls /\ seq' = seq)]_vars

C9_Witness ==
  \E p, q \in Callers :
    /\ pc[p] = "done_resolve" /\ coreRet[p].err = Nil
    /\ pc[q] = "done_resolve" /\ coreRet[q].err # Nil
    /\ urls # {}

\* C10: a Shorten call whose insert is rejected for a duplicate short code
\* does not surface that rejection: it has tried again with a fresh code and
\* ends, at worst, in GenerationExhausted after several attempts.
C10_CollisionRetried ==
  \A p \in Callers :
    (pc[p] = "done_shorten" /\ ErrorsIs(storeRet[p].err, ErrUniqueShort)) =>
      /\ inserts[p] > 1
      /\ ErrorsIs(storeRet[p].err, << "GenerationExhausted" >>)

\* C11: ShortenURL and GetURL return the store's value unchanged on
\* success; on failure they return "" and an error that wraps the store's
\* error, so a miss is still NotFound and a storage failure is still not.
C11_FacadeTransparent ==
  \A p \in Callers :
    pc[p] \in { "done_shorten", "done_resolve" } =>
      /\ storeRet[p].err = Nil => coreRet[p] = storeRet[p]
      /\ storeRet[p].err # Nil =>
           /\ coreRet[p].val = EmptyString
           /\ Len(coreRet[p].err) = Len(storeRet[p].err) + 1
           /\ ErrorsIs(coreRet[p].err, storeRet[p].err)
           /\ ErrorsIs(coreRet[p].err, ErrNotFound) <=> (storeRet[p].err = ErrNotFound)
           /\ ErrorsIs(coreRet[p].err, ErrStorageIO) <=> StorageFailed(p)

C11_Witness ==
  \E p, q \in Callers :
    /\ pc[p] = "done_resolve" /\ ErrorsIs(coreRet[p].err, ErrNotFound)
    /\ pc[q] = "done_shorten" /\ coreRet[q].err = Nil /\ coreRet[q].val # EmptyString

\* C12: a caller inside Shorten or Resolve eventually leaves the call, under
\* any interleaving, given that each storage call returns.
C12_InCall == { "save_select", "save_generate", "save_insert", "get_select" }

C12_CallsComplete ==
  \A p \in Callers : (pc[p] \in C12_InCall) ~> (pc[p] \notin C12_InCall)

C12_Witness ==
  \E p, q \in Callers :
    /\ pc[p] = "done_shorten" /\ inserts[p] = 1 /\ coreRet[p].err # Nil
    /\ pc[q] = "done_resolve"
    /\ restarts = 0

\* C13: when the code generated for a new original is already the short
\* code of another original's mapping, the INSERT step ends the call: one
\* insert attempt, one generated code, no code returned, and the error is
\* the wrapped constraint failure (or a storage failure); no row is added.
C13_CollisionSurfacesError ==
  [][\A p \in Callers :
       (/\ pc[p] = "save_insert"
        /\ pc'[p] # "save_insert"
        /\ restarts' = restarts
        /\ \E r \in urls : r.short = shortCode[p] /\ r.original # arg[p]) =>
         /\ pc'[p] = "done_shorten"
         /\ inserts'[p] = 1
         /\ gens'[p] = 1
         /\ urls' = urls
         /\ coreRet'[p].val = EmptyString
         /\ \/ storeRet'[p].err = Wrap("persistence: failed to insert url", ErrUniqueShort)
            \/ storeRet'[p].err = Wrap("persistence: failed to insert url", ErrUniqueOriginal)
            \/ storeRet'[p].err = Wrap("persistence: failed to insert url", ErrStorageIO)
         /\ coreRet'[p].err = Wrap("core: failed to shorten url", storeRet'[p].err)]_vars

C13_Witness ==
  \E p \in Callers :
    /\ pc[p] = "done_shorten"
    /\ coreRet[p].err = << "core: failed to shorten url",
                           "persistence: failed to insert url",
                           "UNIQUE constraint failed: urls.short" >>
    /\ inserts[p] = 1
    /\ gens[p] = 1

\* C14: two Shorten(u) calls that both passed the lookup for the same new
\* u, with no storage failure and no collision of their codes with another
\* original's mapping, both return without error and with the same code.
C14_RaceLoserGetsCode ==
  \A p, q \in Callers :
    (/\ p # q
     /\ pc[p] = "done_shorten" /\ pc[q] = "done_shorten"
     /\ arg[p] = arg[q]
     /\ gens[p] = 1 /\ gens[q] = 1
     /\ ~StorageFailed(p) /\ ~StorageFailed(q)
     /\ \A r \in urls : r.short \in { shortCode[p], shortCode[q] } => r.original = arg[p]) =>
      /\ coreRet[p].err = Nil
      /\ coreRet[q].err = Nil
      /\ coreRet[p].val = coreRet[q].val

\* C15: a step that ends a Shorten call in an error adds no row and returns
\* "" as code, and no step of a call before its return touches the table.
C15_FailedShortenNoEffect ==
  [][\A p \in Callers :
       (/\ pc[p] \in { "save_select", "save_generate", "save_insert" }
        /\ pc'[p] # pc[p]
        /\ restarts' = restarts
        /\ ~(pc'[p] = "done_shorten" /\ coreRet'[p].err = Nil)) =>
         /\ urls' = urls
         /\ seq' = seq
         /\ pc'[p] = "done_shorten" =>
              /\ coreRet'[p].val = EmptyString
              /\ storeRet'[p].val = EmptyString
              /\ resp'[p] = [status |-> 500, location |-> EmptyString]]_vars

C15_Witness ==
  /\ urls # {}
  /\ \E p, q \in Callers :
       /\ pc[p] = "done_shorten" /\ inserts[p] = 1
       /\ ErrorsIs(coreRet[p].err, ErrUniqueOriginal)
       /\ pc[q] = "done_shorten" /\ inserts[q] = 1
       /\ ErrorsIs(coreRet[q].err, ErrStorageIO)

\* C16: the step that answers GET /code leaves the table alone and answers
\* 301 with the stored original when a mapping with short = code exists,
\* 404 when none exists (a failed storage call apart).
C16_RedirectOr404 ==
  [][\A p \in Callers :
       (/\ pc[p] \in { "idle", "get_select" }
        /\ pc'[p] \in { "done_router", "done_resolve" }
        /\ resp'[p].status # 400
        /\ ~ErrorsIs(storeRet'[p].err, ErrStorageIO)) =>
         /\ urls' = urls
         /\ IF SelectOriginal(urls, arg'[p]) # {}
              THEN /\ resp'[p].status = 301
                   /\ resp'[p].location \in SelectOriginal(urls, arg'[p])
              ELSE resp'[p].status = 404]_vars

\* C17: a GET for the path of a code that Shorten has returned is never
\* answered by the router itself: it reaches handleRedirect, whatever the
\* code.
C17_IssuedCodeNotShadowed ==
  /\ \A u \in Originals : \A c \in issued[u] : Route(Path(c)) = "NotFound"
  /\ \A p \in Callers :
       (pc[p] = "done_router" /\ resp[p].status # 400) =>
         \A r \in urls : r.short # arg[p]

\* C18: handleRedirect answers 404 only when the code has no mapping: a
\* resolve that failed in the storage layer gets another status.
C18_404OnlyForNotFound ==
  \A p \in Callers :
    (pc[p] = "done_resolve" /\ resp[p].status = 404) =>
      /\ ErrorsIs(coreRet[p].err, ErrNotFound)
      /\ ~StorageFailed(p)

C20_CodeIsFunctionOfClock ==
  \A p, q \in Callers :
    (/\ pc[p] = "save_insert" /\ pc[q] = "save_insert"
     /\ arg[p] # arg[q]
     /\ seedRead[p] = seedRead[q]) =>
      shortCode[p] = shortCode[q]

\* C20 amended: the time value read does not fix the code; when two Shorten
\* calls for different new originals do generate the same candidate code,
\* at most one of the inserts is accepted and the other call ends in the
\* constraint failure (or a storage failure).
C20_SameCandidateSecondRejected ==
  \A p, q \in Callers :
    (/\ p # q
     /\ pc[p] = "done_shorten" /\ pc[q] = "done_shorten"
     /\ arg[p] # arg[q]
     /\ gens[p] = 1 /\ gens[q] = 1
     /\ shortCode[p] = shortCode[q]) =>
      /\ ~(coreRet[p].err = Nil /\ coreRet[q].err = Nil)
      /\ (coreRet[p].err = Nil /\ ~StorageFailed(q)) =>
           \/ ErrorsIs(coreRet[q].err, ErrUniqueShort)
           \/ ErrorsIs(coreRet[q].err, ErrUniqueOriginal)

C20_Witness ==
  \E p, q \in Callers :
    /\ pc[p] = "done_shorten" /\ pc[q] = "done_shorten"
    /\ arg[p] # arg[q]
    /\ gens[p] = 1 /\ gens[q] = 1
    /\ shortCode[p] = shortCode[q]
    /\ coreRet[p].err = Nil
    /\ ErrorsIs(coreRet[q].err, ErrUniqueShort)

====
